---- MODULE Spec2Model ----
(***************************************************************************)
(* STIXCore product model: registry dispatch, combine (__add__), day split *)
(* (split_to_files) and the level transitions from_level0 / from_level1 of *)
(* stixcore/products/product.py.                                           *)
(*                                                                         *)
(* Products are objects: a product record holds references (positions in   *)
(* the heaps controls, datas, idbs) to its Control table, its Data table   *)
(* and its idb_versions mapping, so that two products sharing one table    *)
(* object are distinguishable from two products with equal tables.         *)
(*                                                                         *)
(* Time is counted in ticks; TicksPerCent ticks make 0.01 s (the rounding  *)
(* unit of the deduplication key) and TicksPerDay ticks make one day.      *)
(***************************************************************************)
EXTENDS Integers, Sequences, FiniteSets, TLC

VARIABLES
    products,   \* the product objects created so far, in creation order
    controls,   \* heap of Control tables (sequences of Control rows)
    datas,      \* heap of Data tables (sequences of Data rows)
    idbs,       \* heap of idb_versions mappings (version -> [start, end])
    frags,      \* what the last operation yielded, if it was split_to_files
    last,       \* what the last operation was, on what, and how it ended
    registry,   \* ProductFactory.registry: the registered variants
    matches,    \* the registered variants whose validation function returns True
    default_widget_type, \* ProductFactory.default_widget_type, or None
    widget,     \* outcome of the last _check_registered_widget call
    levelb,     \* the level-B batch given to getLeveL0Packets
    decoded,    \* what the last getLeveL0Packets call did and returned
    file,       \* the FITS file last given to the ProductFactory
    loaded,     \* what the ProductFactory made of it
    run         \* one run of the pipeline command line (pipeline_cli.main)

vars == <<products, controls, datas, idbs, frags, last,
          registry, matches, default_widget_type, widget,
          levelb, decoded, file, loaded, run>>

prodVars == <<products, controls, datas, idbs, frags, last>>
regVars == <<registry, matches, default_widget_type, widget>>
ioVars == <<levelb, decoded, file, loaded, run>>

-----------------------------------------------------------------------------
(* Bounds of the model *)

MaxTime == 6         \* sample times are 0..MaxTime ticks
MaxRows == 2         \* Data rows of a constructed input product
MaxProducts == 3     \* product objects held at once
TicksPerCent == 2    \* ticks per 0.01 s
TicksPerDay == 4     \* ticks per day (instrument clock and UTC)
UtcShift == 1        \* ticks between an instrument-clock day start and UTC midnight
MaxChain == 5        \* product objects held at once where sums are summed again
MaxHalfTimedel == 1  \* sample durations are 0, 2, .. 2 * MaxHalfTimedel ticks
MaxPackets == 3      \* packets of a level-B batch
MaxLoaded == 1       \* products the factory has loaded from files
MaxBuilt == 2        \* products built by calling a constructor directly
MaxDay == 3          \* the last day a sample of a many-day product lies in
MaxDayRows == 3      \* Data rows of a many-day product

None == "None"

Times == 0..MaxTime

-----------------------------------------------------------------------------
(* Sequence helpers *)

Range(s) == {s[i] : i \in DOMAIN s}

RECURSIVE SelectRows(_, _)
\* the subsequence of s at the positions in keep, order kept
SelectRows(s, keep) ==
    IF s = <<>> THEN <<>>
    ELSE LET n == Len(s)
             front == SelectRows(SubSeq(s, 1, n - 1), keep)
         IN IF n \in keep THEN Append(front, s[n]) ELSE front

SetMin(S) == CHOOSE x \in S : \A y \in S : x <= y
SetMax(S) == CHOOSE x \in S : \A y \in S : x >= y

RECURSIVE SortedSeqOf(_)
\* the elements of a finite set of integers, ascending (np.unique)
SortedSeqOf(S) ==
    IF S = {} THEN <<>>
    ELSE LET m == SetMin(S) IN <<m>> \o SortedSeqOf(S \ {m})

-----------------------------------------------------------------------------
(* Classes *)

Classes == {"GenericProduct", "DefaultProduct", "ExtraProduct"}

\* the classes c is an instance of: itself and its bases
Bases(c) == IF c = "GenericProduct" THEN {c} ELSE {c, "GenericProduct"}

\* isinstance(obj of class c, d)
IsInstance(c, d) == d \in Bases(c)

\* classes that inherit L1Mixin / L2Mixin (FitsHeaderMixin)
HasFitsHeader(c) == c = "DefaultProduct"

-----------------------------------------------------------------------------
(* Time *)

\* Around cutting the digits off instead of rounding
AroundDown(t) == t \div TicksPerCent

\* np.around(x, 2): the nearest 0.01 s, a tie going to the even one; in cents
Around(t) ==
    LET q == t \div TicksPerCent
        r == t % TicksPerCent
    IN IF 2 * r < TicksPerCent THEN q
       ELSE IF 2 * r > TicksPerCent THEN q + 1
       ELSE IF q % 2 = 0 THEN q ELSE q + 1

\* SCETime.get_scedays: the instrument-clock day number of a time
SceDay(t) == t \div TicksPerDay

\* the UTC calendar day of a time (to_timerange / to_time, then the date)
UtcDay(t) == (t + UtcShift) \div TicksPerDay

\* ScetStart leaving the duration of the sample out
ScetStartOfSample(data) == data[1].time

\* GenericProduct.scet_timerange of a Data table
ScetStart(data) == data[1].time - (data[1].timedel \div 2)
ScetEnd(data) == data[Len(data)].time + (data[Len(data)].timedel \div 2)

-----------------------------------------------------------------------------
(* Tables.  A Control row is [index, packet, raw_file, parent]; a Data row *)
(* is [time, timedel, control_index, val, eng].                            *)

ControlIndices(control) == {control[k].index : k \in DOMAIN control}
DataIndices(data) == {data[k].control_index : k \in DOMAIN data}

\* a row paired with the key it is sorted or grouped on
Keyed(key, row) == [key |-> key, row |-> row]

\* x put behind every element of the sorted sequence whose key is <= its own
InsertSorted(sorted, x) ==
    LET pos == Cardinality({k \in DOMAIN sorted : sorted[k].key <= x.key})
    IN SubSeq(sorted, 1, pos) \o <<x>> \o SubSeq(sorted, pos + 1, Len(sorted))

RECURSIVE StableSort(_)
\* Table.sort / group_by on one key: ascending, equal keys in their given order
StableSort(s) ==
    IF s = <<>> THEN <<>>
    ELSE InsertSorted(StableSort(SubSeq(s, 1, Len(s) - 1)), s[Len(s)])

\* Unique keeping every row of a group
UniqueKeepAll(s) == StableSort(s)

\* astropy.table.unique(keys=...): grouped by key, the first row of each group
Unique(s) ==
    LET g == StableSort(s)
    IN SelectRows(g, {k \in DOMAIN g : k = 1 \/ g[k].key # g[k - 1].key})

Unkey(s) == [k \in DOMAIN s |-> s[k].row]

RECURSIVE FirstOccurrences(_)
\* the distinct elements of a sequence in the order of their first occurrence
FirstOccurrences(s) ==
    IF s = <<>> THEN <<>>
    ELSE LET front == FirstOccurrences(SubSeq(s, 1, Len(s) - 1))
         IN IF s[Len(s)] \in Range(front) THEN front ELSE Append(front, s[Len(s)])

-----------------------------------------------------------------------------
(* GenericProduct.__add__ *)

\* OldIndex without the letter that tells self from other
OldIndexBare(letter, i) == <<"x", i>>

\* the transient origin tag: f"s{i}" for self, f"o{i}" for other
OldIndex(letter, i) == <<letter, i>>

\* StackData always putting self in front
StackDataSelfFirst(self_data, other_data) ==
    [k \in DOMAIN self_data |->
        [row |-> self_data[k],
         old_index |-> <<"s", self_data[k].control_index>>]]
    \o [k \in DOMAIN other_data |->
           [row |-> other_data[k],
            old_index |-> <<"o", other_data[k].control_index>>]]

\* StackData taking only other's rows when other starts first
StackDataEarlierOnly(self_data, other_data) ==
    LET s == [k \in DOMAIN self_data |->
                 [row |-> self_data[k],
                  old_index |-> <<"s", self_data[k].control_index>>]]
        o == [k \in DOMAIN other_data |->
                 [row |-> other_data[k],
                  old_index |-> <<"o", other_data[k].control_index>>]]
    IN IF ScetStart(self_data) <= ScetStart(other_data) THEN s \o o ELSE o

\* the Data tables stacked, the one whose time range starts first in front
StackData(self_data, other_data) ==
    LET s == [k \in DOMAIN self_data |->
                 [row |-> self_data[k],
                  old_index |-> OldIndex("s", self_data[k].control_index)]]
        o == [k \in DOMAIN other_data |->
                 [row |-> other_data[k],
                  old_index |-> OldIndex("o", other_data[k].control_index)]]
    IN IF ScetStart(self_data) <= ScetStart(other_data) THEN s \o o ELSE o \o s

\* the stacked rows made unique on the rounded time and sorted by it
DedupSort(stacked) ==
    LET keyed == [k \in DOMAIN stacked |-> Keyed(Around(stacked[k].row.time), stacked[k])]
    IN Unkey(StableSort(Unique(keyed)))

\* newids: the tags of the surviving rows, the k-th distinct one getting id k-1
NewIdOrder(rows) == FirstOccurrences([k \in DOMAIN rows |-> rows[k].old_index])

NewId(order, oid) == (CHOOSE k \in DOMAIN order : order[k] = oid) - 1

\* the Data table of self + other
AddData(self_data, other_data) ==
    LET rows == DedupSort(StackData(self_data, other_data))
        order == NewIdOrder(rows)
    IN [k \in DOMAIN rows |->
           [rows[k].row EXCEPT !.control_index = NewId(order, rows[k].old_index)]]

\* AddControl without the final sort by index
AddControlUnsorted(self_control, other_control, self_data, other_data) ==
    LET rows == Unkey(StableSort(Unique(
                    LET st == StackData(self_data, other_data)
                    IN [k \in DOMAIN st |-> Keyed(Around(st[k].row.time), st[k])])))
        order == FirstOccurrences([k \in DOMAIN rows |-> rows[k].old_index])
        control == [k \in DOMAIN self_control |->
                       [row |-> self_control[k],
                        old_index |-> OldIndex("s", self_control[k].index)]]
                   \o [k \in DOMAIN other_control |->
                          [row |-> other_control[k],
                           old_index |-> OldIndex("o", other_control[k].index)]]
        kept == SelectRows(control,
                           {k \in DOMAIN control : control[k].old_index \in Range(order)})
    IN [k \in DOMAIN kept |->
           [kept[k].row EXCEPT
               !.index = (CHOOSE m \in DOMAIN order : order[m] = kept[k].old_index) - 1]]

\* the Control table of self + other
AddControl(self_control, other_control, self_data, other_data) ==
    LET order == NewIdOrder(DedupSort(StackData(self_data, other_data)))
        s == [k \in DOMAIN self_control |->
                 [row |-> self_control[k],
                  old_index |-> OldIndex("s", self_control[k].index)]]
        o == [k \in DOMAIN other_control |->
                 [row |-> other_control[k],
                  old_index |-> OldIndex("o", other_control[k].index)]]
        control == s \o o
        kept == SelectRows(control,
                           {k \in DOMAIN control : control[k].old_index \in Range(order)})
        renumbered == [k \in DOMAIN kept |->
                          LET nid == NewId(order, kept[k].old_index)
                          IN Keyed(nid, [kept[k].row EXCEPT !.index = nid])]
    IN Unkey(StableSort(renumbered))

\* SCETimeRange.expand
Expand(range, other) ==
    [start |-> IF other.start < range.start THEN other.start ELSE range.start,
     end |-> IF other.end > range.end THEN other.end ELSE range.end]

\* AddIdb keeping self's range of a version both have
AddIdbSelfWins(self_idb, other_idb) ==
    [v \in DOMAIN self_idb \cup DOMAIN other_idb |->
        IF v \in DOMAIN self_idb THEN self_idb[v] ELSE other_idb[v]]

\* the idb_versions of self + other: self's ranges copied, other's expanded in
AddIdb(self_idb, other_idb) ==
    [v \in DOMAIN self_idb \cup DOMAIN other_idb |->
        IF v \notin DOMAIN other_idb THEN self_idb[v]
        ELSE IF v \notin DOMAIN self_idb THEN other_idb[v]
        ELSE Expand(self_idb[v], other_idb[v])]

\* defaultdict(SCETimeRange) with no key yet
EmptyIdb == [v \in {} |-> [start |-> 0, end |-> 0]]

NoFrags == <<>>

\* AddBounded working on self's own tables: the sum is also left in self
AddBoundedInPlace(i, j, limit) ==
    /\ i \in DOMAIN products /\ j \in DOMAIN products
    /\ IsInstance(products[j].cls, products[i].cls)
    /\ Len(products) < limit
    /\ LET self == products[i]
           other == products[j]
           control == AddControl(controls[self.control], controls[other.control],
                                 datas[self.data], datas[other.data])
           data == AddData(datas[self.data], datas[other.data])
       IN /\ controls' = Append([controls EXCEPT ![self.control] = control], control)
          /\ datas' = Append([datas EXCEPT ![self.data] = data], data)
          /\ idbs' = Append(idbs, AddIdb(idbs[self.idb_versions],
                                         idbs[other.idb_versions]))
          /\ products' = Append(products,
                 [cls |-> self.cls, level |-> self.level,
                  control |-> Len(controls) + 1, data |-> Len(datas) + 1,
                  idb_versions |-> Len(idbs) + 1, fits_header |-> None])
          /\ last' = [op |-> "add", self |-> i, other |-> j,
                      out |-> Len(products) + 1, err |-> None]
    /\ frags' = NoFrags
    /\ UNCHANGED <<regVars, ioVars>>

\* self + other with products[i] as self and products[j] as other; limit is
\* the number of product objects the model holds at most.  The slices
\* self.control[:] .. other.data[:] are new table objects: the old_index
\* columns are added to them, and the rows that are rewritten are rows of
\* the vstack results, so no table of self or other is written to.
AddBounded(i, j, limit) ==
    /\ i \in DOMAIN products /\ j \in DOMAIN products
    /\ LET self == products[i]
           other == products[j]
       IN IF ~IsInstance(other.cls, self.cls)
          THEN /\ last' = [op |-> "add", self |-> i, other |-> j, out |-> 0,
                           err |-> "TypeError"]
               /\ UNCHANGED <<products, controls, datas, idbs>>
          ELSE /\ Len(products) < limit
               /\ controls' = Append(controls,
                      AddControl(controls[self.control], controls[other.control],
                                 datas[self.data], datas[other.data]))
               /\ datas' = Append(datas, AddData(datas[self.data], datas[other.data]))
               /\ idbs' = Append(idbs, AddIdb(idbs[self.idb_versions],
                                              idbs[other.idb_versions]))
               /\ products' = Append(products,
                      [cls |-> self.cls, level |-> self.level,
                       control |-> Len(controls) + 1, data |-> Len(datas) + 1,
                       idb_versions |-> Len(idbs) + 1, fits_header |-> None])
               /\ last' = [op |-> "add", self |-> i, other |-> j,
                           out |-> Len(products) + 1, err |-> None]
    /\ frags' = NoFrags
    /\ UNCHANGED <<regVars, ioVars>>

Add(i, j) == AddBounded(i, j, MaxProducts)

-----------------------------------------------------------------------------
(* GenericProduct.split_to_files *)

\* SplitDays visiting the days of the first and of the last row only
SplitDaysFirstLast(level, data) ==
    IF level = "L0"
    THEN SortedSeqOf({SceDay(data[1].time), SceDay(data[Len(data)].time)})
    ELSE SortedSeqOf({UtcDay(ScetStart(data)), UtcDay(ScetEnd(data))})

\* the day values the loop runs over, in the order it visits them
SplitDays(level, data) ==
    IF level = "L0"
    THEN SortedSeqOf({SceDay(data[k].time) : k \in DOMAIN data})
    ELSE SortedSeqOf(UtcDay(ScetStart(data))..UtcDay(ScetEnd(data)))

\* DayRows with the end of the day counted in
DayRowsClosed(level, data, day) ==
    IF level = "L0"
    THEN {k \in DOMAIN data : SceDay(data[k].time) >= day /\ SceDay(data[k].time) <= day + 1}
    ELSE {k \in DOMAIN data : UtcDay(data[k].time) >= day /\ UtcDay(data[k].time) <= day + 1}

\* np.where(...): the positions of the Data rows of one day
DayRows(level, data, day) ==
    IF level = "L0"
    THEN {k \in DOMAIN data : SceDay(data[k].time) >= day /\ SceDay(data[k].time) < day + 1}
    ELSE {k \in DOMAIN data : UtcDay(data[k].time) >= day /\ UtcDay(data[k].time) < day + 1}

\* the Data table of the fragment holding the rows at positions i
FragmentData(data, i) ==
    LET rows == SelectRows(data, i)
        control_index_min == SetMin(DataIndices(rows))
    IN [k \in DOMAIN rows |->
           [rows[k] EXCEPT !.control_index = rows[k].control_index - control_index_min]]

\* FragmentControl keeping every Control row of the product
FragmentControlAll(control, data, i) ==
    LET control_index_min == SetMin(DataIndices(SelectRows(data, i)))
    IN [k \in DOMAIN control |->
           [control[k] EXCEPT !.index = control[k].index - control_index_min]]

\* the Control table of the fragment holding the rows at positions i
FragmentControl(control, data, i) ==
    LET control_indices == DataIndices(SelectRows(data, i))
        rows == SelectRows(control,
                           {k \in DOMAIN control : control[k].index \in control_indices})
        control_index_min == SetMin(control_indices)
    IN [k \in DOMAIN rows |->
           [rows[k] EXCEPT !.index = rows[k].index - control_index_min]]

\* the product yielded for one day; a fragment owns its two new tables and
\* keeps the idb_versions object of the product it was cut from (day notes
\* the loop value it was yielded for)
Fragment(self, day) ==
    LET i == DayRows(self.level, datas[self.data], day)
    IN [cls |-> self.cls, level |-> self.level, day |-> day,
        control |-> FragmentControl(controls[self.control], datas[self.data], i),
        data |-> FragmentData(datas[self.data], i),
        idb_versions |-> self.idb_versions,
        fits_header |-> self.fits_header]

\* everything the generator yields when it is iterated to its end
SplitToFiles(self) ==
    LET days == SplitDays(self.level, datas[self.data])
        hit == SelectRows(days, {d \in DOMAIN days :
                                    DayRows(self.level, datas[self.data], days[d]) # {}})
    IN [d \in DOMAIN hit |-> Fragment(self, hit[d])]

Split(i) ==
    /\ i \in DOMAIN products
    /\ frags' = SplitToFiles(products[i])
    /\ last' = [op |-> "split", self |-> i, other |-> 0, out |-> 0, err |-> None]
    /\ UNCHANGED <<products, controls, datas, idbs, regVars, ioVars>>

-----------------------------------------------------------------------------
(* Level transitions *)

ParentNames == {"parent.fits"}

\* Table.replace_column('parent', [parent] * len(table))
ReplaceParent(control, parent) ==
    [k \in DOMAIN control |-> [control[k] EXCEPT !.parent = parent]]

\* engineering.raw_to_engineering_product: the values of the product's Data
\* table converted from raw counts to engineering units
RawToEngineeringProduct(data) ==
    [k \in DOMAIN data |-> [data[k] EXCEPT !.eng = TRUE]]

\* L1Mixin.from_level0, called on class cls
FromLevel0(cls, i, parent) ==
    /\ HasFitsHeader(cls)
    /\ i \in DOMAIN products
    /\ Len(products) < MaxProducts
    /\ LET l0product == products[i]
       IN /\ products' = Append(products,
                 [cls |-> cls, level |-> "L1",
                  control |-> l0product.control, data |-> l0product.data,
                  idb_versions |-> l0product.idb_versions, fits_header |-> None])
          /\ controls' = [controls EXCEPT ![l0product.control] =
                             ReplaceParent(controls[l0product.control], parent)]
          /\ datas' = [datas EXCEPT ![l0product.data] =
                          RawToEngineeringProduct(datas[l0product.data])]
    /\ last' = [op |-> "from_level0", self |-> i, other |-> 0,
                out |-> Len(products) + 1, err |-> None]
    /\ frags' = NoFrags
    /\ UNCHANGED <<idbs, regVars, ioVars>>

\* L2Mixin.from_level1, called on class cls
FromLevel1(cls, i, parent) ==
    /\ HasFitsHeader(cls)
    /\ i \in DOMAIN products
    /\ Len(products) < MaxProducts
    /\ LET l1product == products[i]
           err == IF ~HasFitsHeader(l1product.cls) THEN "AttributeError"
                  ELSE IF l1product.fits_header = None THEN "ValueError"
                  ELSE None
       IN /\ controls' = [controls EXCEPT ![l1product.control] =
                             ReplaceParent(controls[l1product.control], parent)]
          /\ products' = IF err # None THEN products
                         ELSE Append(products,
                                [cls |-> cls, level |-> "L2",
                                 control |-> l1product.control, data |-> l1product.data,
                                 idb_versions |-> l1product.idb_versions,
                                 fits_header |-> l1product.fits_header])
          /\ last' = [op |-> "from_level1", self |-> i, other |-> 0,
                      out |-> IF err # None THEN 0 ELSE Len(products) + 1, err |-> err]
    /\ frags' = NoFrags
    /\ UNCHANGED <<datas, idbs, regVars, ioVars>>

-----------------------------------------------------------------------------
(* Initial products: two files read by the ProductFactory *)

\* the IDB version in force at a packet's time
IdbVersionAt(t) == IF 2 * t <= MaxTime THEN "v1" ELSE "v2"

\* idb_versions as getLeveL0Packets tracks it: per version, the range of the
\* times of the packets decoded under it
IdbOfTimes(ts) ==
    [v \in {IdbVersionAt(t) : t \in ts} |->
        [start |-> SetMin({t \in ts : IdbVersionAt(t) = v}),
         end |-> SetMax({t \in ts : IdbVersionAt(t) = v})]]

\* control_index columns of n rows over packets numbered densely from 0 in
\* the order the rows first name them
IndexColumns(n) ==
    {c \in [1..n -> 0..(n - 1)] :
        /\ c[1] = 0
        /\ \A k \in 2..n : \E m \in 1..(k - 1) : c[k] <= c[m] + 1}

NewControl(raw_file, c) ==
    LET n == Cardinality(Range(c))
    IN [k \in 1..n |-> [index |-> k - 1, packet |-> k - 1, raw_file |-> raw_file,
                        parent |-> "lb.fits"]]

NewData(raw_file, times, c, timedel) ==
    [k \in DOMAIN times |-> [time |-> times[k], timedel |-> timedel,
                             control_index |-> c[k], val |-> raw_file, eng |-> FALSE]]

NewProduct(cls, level, ref) ==
    [cls |-> cls, level |-> level, control |-> ref, data |-> ref, idb_versions |-> ref,
     fits_header |-> IF HasFitsHeader(cls) THEN "header" ELSE None]

NoLast == [op |-> None, self |-> 0, other |-> 0, out |-> 0, err |-> None]

InitProducts(classes1, classes2, levels, rowCounts, timedels) ==
    \E c1 \in classes1, c2 \in classes2, level \in levels,
       n1 \in rowCounts, n2 \in rowCounts, td1 \in timedels, td2 \in timedels :
      \E t1 \in [1..n1 -> Times], t2 \in [1..n2 -> Times],
         x1 \in IndexColumns(n1), x2 \in IndexColumns(n2) :
        /\ products = <<NewProduct(c1, level, 1), NewProduct(c2, level, 2)>>
        /\ controls = <<NewControl("a", x1), NewControl("b", x2)>>
        /\ datas = <<NewData("a", t1, x1, td1), NewData("b", t2, x2, td2)>>
        /\ idbs = <<IdbOfTimes(Range(t1)), IdbOfTimes(Range(t2))>>
        /\ frags = NoFrags
        /\ last = NoLast

NoRegistry ==
    /\ registry = <<>>
    /\ matches = {}
    /\ default_widget_type = None
    /\ widget = [type |-> None, err |-> None]

\* getLeveL0Packets not called yet
NotDecoded ==
    [called |-> FALSE, returned |-> FALSE, packets |-> <<>>, idb_versions |-> EmptyIdb,
     handled |-> 0, err |-> None]

\* no file given to the ProductFactory yet
NoFile == [level |-> None, energies |-> FALSE, idb |-> FALSE]

NotLoaded == [called |-> FALSE, energies |-> None, out |-> 0, err |-> None]

\* the command line not in use
NoRun ==
    [start_level |-> 0, end_level |-> 0, has_input_files |-> FALSE, pc |-> "off",
     level |-> 0, processed_files |-> <<>>, executed |-> <<>>, err |-> None]

\* nothing decoded and no file loaded
NoIO ==
    /\ levelb = <<>>
    /\ decoded = NotDecoded
    /\ file = NoFile
    /\ loaded = NotLoaded
    /\ run = NoRun

Init ==
    /\ InitProducts({"DefaultProduct"}, {"DefaultProduct"}, {"L0", "L1"}, 1..MaxRows, {0})
    /\ NoRegistry
    /\ NoIO

\* two files of one variant are combined, either one on the left, and split
Next ==
    \/ \E i \in DOMAIN products, j \in DOMAIN products : i # j /\ Add(i, j)
    \/ \E i \in DOMAIN products : Split(i)

Spec == Init /\ [][Next]_vars

InitVariants ==
    /\ InitProducts(Classes, Classes, {"L0", "L1"}, {1}, {0})
    /\ NoRegistry
    /\ NoIO

NextVariants ==
    \/ \E i \in DOMAIN products, j \in DOMAIN products : Add(i, j)
    \/ \E i \in DOMAIN products : Split(i)
    \/ \E cls \in Classes, i \in DOMAIN products, parent \in ParentNames :
          FromLevel0(cls, i, parent)
    \/ \E cls \in Classes, i \in DOMAIN products, parent \in ParentNames :
          FromLevel1(cls, i, parent)

SpecVariants == InitVariants /\ [][NextVariants]_vars

\* three files of one variant, of one packet each
InitSums ==
    /\ \E t1 \in [1..1 -> Times], t2 \in [1..1 -> Times], t3 \in [1..1 -> Times] :
         /\ products = <<NewProduct("DefaultProduct", "L0", 1),
                         NewProduct("DefaultProduct", "L0", 2),
                         NewProduct("DefaultProduct", "L0", 3)>>
         /\ controls = <<NewControl("a", <<0>>), NewControl("b", <<0>>),
                         NewControl("c", <<0>>)>>
         /\ datas = <<NewData("a", t1, <<0>>, 0), NewData("b", t2, <<0>>, 0),
                      NewData("c", t3, <<0>>, 0)>>
         /\ idbs = <<IdbOfTimes(Range(t1)), IdbOfTimes(Range(t2)),
                     IdbOfTimes(Range(t3))>>
    /\ frags = NoFrags
    /\ last = NoLast
    /\ NoRegistry
    /\ NoIO

\* the files and their sums are combined, also a product with itself
NextSums ==
    \E i \in DOMAIN products, j \in DOMAIN products : AddBounded(i, j, MaxChain)

SpecSums == InitSums /\ [][NextSums]_vars

\* the sample durations of a file
Timedels == {2 * h : h \in 0..MaxHalfTimedel}

\* two L0 files of one variant, each with its own sample duration
InitTimedel ==
    /\ InitProducts({"DefaultProduct"}, {"DefaultProduct"}, {"L0"}, 1..MaxRows, Timedels)
    /\ NoRegistry
    /\ NoIO

NextTimedel ==
    \E i \in DOMAIN products, j \in DOMAIN products : i # j /\ Add(i, j)

SpecTimedel == InitTimedel /\ [][NextTimedel]_vars

\* sample times at the first and the last tick of the days 0..MaxDay
DayTimes == {d * TicksPerDay + o : d \in 0..MaxDay, o \in {0, TicksPerDay - 1}}

\* one L0 file whose samples lie anywhere in the days 0..MaxDay
InitDays ==
    /\ \E n \in 1..MaxDayRows :
         \E t \in [1..n -> DayTimes], x \in IndexColumns(n) :
           /\ products = <<NewProduct("DefaultProduct", "L0", 1)>>
           /\ controls = <<NewControl("a", x)>>
           /\ datas = <<NewData("a", t, x, 0)>>
           /\ idbs = <<IdbOfTimes(Range(t))>>
    /\ frags = NoFrags
    /\ last = NoLast
    /\ NoRegistry
    /\ NoIO

NextDays == \E i \in DOMAIN products : Split(i)

SpecDays == InitDays /\ [][NextDays]_vars

-----------------------------------------------------------------------------
(* GenericProduct.getLeveL0Packets.  A packet of the batch is its time and *)
(* the step that raises on it, if one does: the Packet constructor,        *)
(* decompression.decompress or engineering.raw_to_engineering.             *)

Faults == {None, "Packet", "decompress", "raw_to_engineering"}

Batches ==
    UNION {[1..n -> [time : Times, fault : Faults]] : n \in 1..MaxPackets}

\* the decoded packet: its time and the IDB version it was decoded with
DecodedPacket(d) == [time |-> d.time, version |-> IdbVersionAt(d.time)]

\* LeveL0Packets with every packet in a try of its own: a packet that
\* raises is left out and the others are returned
LeveL0PacketsIsolated(batch) ==
    LET good == SelectSeq(batch, LAMBDA d : d.fault = None)
    IN [called |-> TRUE, returned |-> TRUE,
        packets |-> [k \in DOMAIN good |-> DecodedPacket(good[k])],
        idb_versions |-> IF good = <<>> THEN EmptyIdb
                         ELSE IdbOfTimes({good[k].time : k \in DOMAIN good}),
        handled |-> Len(good), err |-> None]

\* what the call does with the batch: the packets and idb_versions it
\* returns, or the step that raised; handled counts the packets that went
\* through the loop
LeveL0Packets(batch) ==
    LET unbuilt == {k \in DOMAIN batch : batch[k].fault = "Packet"}
        unhandled == {k \in DOMAIN batch : batch[k].fault # None}
    IN IF unbuilt # {}
       THEN [called |-> TRUE, returned |-> FALSE, packets |-> <<>>,
             idb_versions |-> EmptyIdb, handled |-> 0, err |-> "Packet"]
       ELSE IF unhandled # {}
       THEN [called |-> TRUE, returned |-> FALSE, packets |-> <<>>,
             idb_versions |-> EmptyIdb, handled |-> SetMin(unhandled) - 1,
             err |-> batch[SetMin(unhandled)].fault]
       ELSE [called |-> TRUE, returned |-> TRUE,
             packets |-> [k \in DOMAIN batch |-> DecodedPacket(batch[k])],
             idb_versions |-> IdbOfTimes({batch[k].time : k \in DOMAIN batch}),
             handled |-> Len(batch), err |-> None]

GetLeveL0Packets ==
    /\ decoded' = LeveL0Packets(levelb)
    /\ UNCHANGED <<levelb, file, loaded, run, prodVars, regVars>>

InitDecode ==
    /\ levelb \in Batches
    /\ decoded = NotDecoded
    /\ file = NoFile
    /\ loaded = NotLoaded
    /\ run = NoRun
    /\ products = <<>>
    /\ controls = <<>>
    /\ datas = <<>>
    /\ idbs = <<>>
    /\ frags = NoFrags
    /\ last = NoLast
    /\ NoRegistry

NextDecode == GetLeveL0Packets

SpecDecode == InitDecode /\ [][NextDecode]_vars

-----------------------------------------------------------------------------
(* The constructors called directly: GenericProduct.__init__ and           *)
(* DefaultProduct.__init__, each with the default idb_versions=            *)
(* defaultdict(SCETimeRange) in its signature.  A default is evaluated     *)
(* once, when the def statement runs: the two mappings are objects that    *)
(* exist before any product does, at the first two places of idbs.         *)

\* the place in idbs of the default mapping of the __init__ that class cls runs
DefaultIdb(cls) == IF cls = "DefaultProduct" THEN 2 ELSE 1

\* the keyword arguments of a call that decide the idb_versions: the call
\* either has no idb_versions argument or passes a mapping of its own
IdbArguments ==
    {[given |-> FALSE, idb_versions |-> EmptyIdb],
     [given |-> TRUE, idb_versions |-> IdbOfTimes({0})]}

\* cls(service_type=.., service_subtype=.., ssid=.., control=.., data=..),
\* with idb_versions=.. when kwargs has it
Construct(cls, kwargs) ==
    /\ Len(products) < MaxBuilt
    /\ controls' = Append(controls, NewControl("a", <<0>>))
    /\ datas' = Append(datas, NewData("a", <<0>>, <<0>>, 0))
    /\ idbs' = IF kwargs.given THEN Append(idbs, kwargs.idb_versions) ELSE idbs
    /\ products' = Append(products,
           [cls |-> cls,
            level |-> IF cls = "DefaultProduct" THEN "L0" ELSE None,
            control |-> Len(controls) + 1, data |-> Len(datas) + 1,
            idb_versions |-> IF kwargs.given THEN Len(idbs) + 1 ELSE DefaultIdb(cls),
            fits_header |-> None])
    /\ last' = [op |-> "construct", self |-> 0, other |-> 0,
                out |-> Len(products) + 1, err |-> None]
    /\ frags' = NoFrags
    /\ UNCHANGED <<regVars, ioVars>>

\* product.idb_versions[version].expand(time), as a caller tracking the
\* packets of a product does: the defaultdict makes the range if it is new
ExpandIdb(i, version, time) ==
    /\ i \in DOMAIN products
    /\ LET ref == products[i].idb_versions
           point == [start |-> time, end |-> time]
           range == IF version \in DOMAIN idbs[ref]
                    THEN Expand(idbs[ref][version], point)
                    ELSE point
       IN idbs' = [idbs EXCEPT ![ref] =
                      [v \in DOMAIN idbs[ref] \cup {version} |->
                          IF v = version THEN range ELSE idbs[ref][v]]]
    /\ last' = [op |-> "expand", self |-> i, other |-> 0, out |-> 0, err |-> None]
    /\ frags' = NoFrags
    /\ UNCHANGED <<products, controls, datas, regVars, ioVars>>

InitDefaults ==
    /\ products = <<>>
    /\ controls = <<>>
    /\ datas = <<>>
    /\ idbs = <<EmptyIdb, EmptyIdb>>
    /\ frags = NoFrags
    /\ last = NoLast
    /\ NoRegistry
    /\ NoIO

NextDefaults ==
    \/ \E cls \in Classes, kwargs \in IdbArguments : Construct(cls, kwargs)
    \/ \E i \in DOMAIN products, time \in {0, MaxTime} : ExpandIdb(i, "v1", time)

SpecDefaults == InitDefaults /\ [][NextDefaults]_vars

-----------------------------------------------------------------------------
(* ProductFactory._check_registered_widget *)

\* sequences over S without repetition: the orders a dict can hold its keys in
Orders(S) ==
    {q \in UNION {[1..n -> S] : n \in 0..Cardinality(S)} :
        \A a \in DOMAIN q, b \in DOMAIN q : a # b => q[a] # q[b]}

\* WidgetType resolving an ambiguous match by taking the first candidate
WidgetTypeFirstMatch(candidate_widget_types, default) ==
    IF Len(candidate_widget_types) = 0
    THEN IF default = None
         THEN [type |-> None, err |-> "NoMatchError"]
         ELSE [type |-> default, err |-> None]
    ELSE [type |-> candidate_widget_types[1], err |-> None]

\* the widget type the check returns, or the error it raises, once the
\* validation functions of the registry have given candidate_widget_types
WidgetType(candidate_widget_types, default) ==
    LET n_matches == Len(candidate_widget_types)
    IN IF n_matches = 0
       THEN IF default = None
            THEN [type |-> None, err |-> "NoMatchError"]
            ELSE [type |-> default, err |-> None]
       ELSE IF n_matches > 1
            THEN [type |-> None, err |-> "MultipleMatchError"]
            ELSE [type |-> candidate_widget_types[1], err |-> None]

\* one call; m is the set of registered variants whose validation function
\* returns True for the arguments of the call
CheckRegisteredWidget(m) ==
    /\ m \subseteq Range(registry)
    /\ matches' = m
    /\ widget' = WidgetType(SelectSeq(registry, LAMBDA key : key \in m),
                            default_widget_type)
    /\ UNCHANGED <<registry, default_widget_type, prodVars, ioVars>>

NoProducts ==
    /\ products = <<>>
    /\ controls = <<>>
    /\ datas = <<>>
    /\ idbs = <<>>
    /\ frags = NoFrags
    /\ last = NoLast

NotCalled == [type |-> None, err |-> None]

InitDispatch ==
    /\ registry \in Orders(Classes)
    /\ default_widget_type \in Classes \cup {None}
    /\ matches = {}
    /\ widget = NotCalled
    /\ NoProducts
    /\ NoIO

NextDispatch == \E m \in SUBSET Classes : CheckRegisteredWidget(m)

SpecDispatch == InitDispatch /\ [][NextDispatch]_vars

-----------------------------------------------------------------------------
(* ProductFactory.__call__ with the path of a FITS file.  A file is its    *)
(* level and whether it has the ENERGIES and the IDB_VERSIONS table; the   *)
(* CONTROL and DATA tables and the header keys every file has are there.   *)

Files == [level : {"L0", "L1", "L2"}, energies : BOOLEAN, idb : BOOLEAN]

\* read_qtable(file_path, hdu=...): the table, or KeyError when the file has
\* no such table
ReadQTable(found, table) ==
    IF found THEN [table |-> table, err |-> None] ELSE [table |-> None, err |-> "KeyError"]

\* OptionalTables with no except clause around the two reads
OptionalTablesUncaught(f) ==
    LET e == ReadQTable(f.energies, "energies")
    IN [energies |-> IF f.level = "L1" THEN e.table ELSE None,
        idb_versions |-> IF f.level \in {"L0", "L1"} /\ f.idb
                         THEN IdbOfTimes({0}) ELSE EmptyIdb,
        err |-> IF f.level = "L1" /\ e.err # None THEN e.err
                ELSE IF f.level \in {"L0", "L1"} /\ ~f.idb THEN "KeyError"
                ELSE None]

\* energies and idb_versions as they stand when dispatch is reached: each
\* read is in a try whose except KeyError clause only logs
OptionalTables(f) ==
    LET e == ReadQTable(f.energies, "energies")
        i == ReadQTable(f.idb, "idb_versions")
    IN [energies |-> IF f.level = "L1" /\ e.err = None THEN e.table ELSE None,
        idb_versions |-> IF f.level \in {"L0", "L1"} /\ i.err = None
                         THEN IdbOfTimes({0}) ELSE EmptyIdb,
        err |-> None]

\* one call with the path of file f; m is the set of registered variants
\* whose validation function returns True for the file
Load(f, m) ==
    /\ Len(products) < MaxLoaded
    /\ m \subseteq Range(registry)
    /\ file' = f
    /\ LET read == OptionalTables(f)
           Product == WidgetType(SelectSeq(registry, LAMBDA key : key \in m),
                                 default_widget_type)
       IN IF read.err # None
          THEN /\ loaded' = [called |-> TRUE, energies |-> None, out |-> 0,
                              err |-> read.err]
               /\ last' = [op |-> "load", self |-> 0, other |-> 0, out |-> 0,
                            err |-> read.err]
               /\ UNCHANGED <<products, controls, datas, idbs, matches, widget>>
          ELSE /\ matches' = m
               /\ widget' = Product
               /\ IF Product.err # None
                  THEN /\ loaded' = [called |-> TRUE, energies |-> read.energies,
                                      out |-> 0, err |-> Product.err]
                       /\ last' = [op |-> "load", self |-> 0, other |-> 0, out |-> 0,
                                    err |-> Product.err]
                       /\ UNCHANGED <<products, controls, datas, idbs>>
                  ELSE /\ controls' = Append(controls, NewControl("a", <<0>>))
                       /\ datas' = Append(datas, NewData("a", <<0>>, <<0>>, 0))
                       /\ idbs' = Append(idbs, read.idb_versions)
                       /\ products' = Append(products,
                              [cls |-> Product.type, level |-> f.level,
                               control |-> Len(controls) + 1, data |-> Len(datas) + 1,
                               idb_versions |-> Len(idbs) + 1,
                               fits_header |-> IF HasFitsHeader(Product.type)
                                               THEN "header" ELSE None])
                       /\ loaded' = [called |-> TRUE, energies |-> read.energies,
                                      out |-> Len(products) + 1, err |-> None]
                       /\ last' = [op |-> "load", self |-> 0, other |-> 0,
                                    out |-> Len(products) + 1, err |-> None]
    /\ frags' = NoFrags
    /\ UNCHANGED <<registry, default_widget_type, levelb, decoded, run>>

NextLoad == \E f \in Files, m \in SUBSET Classes : Load(f, m)

SpecLoad == InitDispatch /\ [][NextLoad]_vars

-----------------------------------------------------------------------------
(* processing/pipeline_cli.py: main.  ProductLevel gives the levels their  *)
(* values; a run is main from the level check at line 165 on.  A file is   *)
(* where it comes from and the stages it has been through.                 *)

TM == -2
LB == -1
L0 == 0
L1 == 1
L2 == 2
ALL == 100

ProductLevels == {TM, LB, L0, L1, L2, ALL}

\* the levels that have a list in processed_files
FileLevels == {LB, L0, L1, L2}

\* the files listed in the file given with --input_files
InputFiles == <<[origin |-> "input_files", through |-> <<>>]>>

\* (fitsdir / level).rglob(FILTER): the files of that level in the archive
ArchiveFiles(level) == <<[origin |-> "fitsdir", through |-> <<level>>]>>

\* soc.get_files(...): the telemetry files of the archive
SocFiles == <<[origin |-> "tm_archive", through |-> <<>>]>>

\* [SOCPacketFile(f) in input_files]: one truth value, of a membership test
\* on the object made of f, which is the closed handle of the list file
TruthValue == <<[origin |-> "bool", through |-> <<>>]>>

\* what a stage returns for the files it is given: a file per file
Processed(level, files) ==
    [k \in DOMAIN files |-> [files[k] EXCEPT !.through = Append(@, level)]]

\* args.end_level.value < args.start_level.value: ValueError
CheckLevels ==
    /\ run.pc = "check"
    /\ run' = IF run.end_level < run.start_level
              THEN [run EXCEPT !.pc = "raised", !.err = "ValueError"]
              ELSE [run EXCEPT !.pc = "LB"]
    /\ UNCHANGED <<prodVars, regVars, levelb, decoded, file, loaded>>

\* the block of the LB stage; raises says whether SOCPacketFile(f) raises
\* for the handle it is given
StageLB(raises) ==
    /\ run.pc = "LB"
    /\ run' =
         IF ~(LB >= run.start_level)
         THEN [run EXCEPT !.pc = "seed", !.level = L0]
         ELSE IF run.has_input_files /\ raises
         THEN [run EXCEPT !.pc = "raised", !.err = "SOCPacketFile"]
         ELSE LET tmfiles == IF run.has_input_files THEN TruthValue ELSE SocFiles
              IN [run EXCEPT
                     !.processed_files[LB] = @ \o Processed(LB, tmfiles),
                     !.executed = Append(@, [stage |-> LB, files |-> tmfiles]),
                     !.pc = "seed", !.level = L0]
    /\ UNCHANGED <<prodVars, regVars, levelb, decoded, file, loaded>>

\* if args.start_level == level: the list of the level below is filled from
\* the input files or from the archive
Seed ==
    /\ run.pc = "seed"
    /\ run' =
         IF run.start_level = run.level
         THEN [run EXCEPT
                  !.processed_files[run.level - 1] =
                      @ \o (IF run.has_input_files THEN InputFiles
                            ELSE ArchiveFiles(run.level - 1)),
                  !.pc = "stage"]
         ELSE [run EXCEPT !.pc = "stage"]
    /\ UNCHANGED <<prodVars, regVars, levelb, decoded, file, loaded>>

\* the block of the stage L0, L1 or L2
Stage ==
    /\ run.pc = "stage"
    /\ LET level == run.level
           next == IF level = L2 THEN "done" ELSE "seed"
       IN run' =
            IF level >= run.start_level /\ run.end_level >= level
            THEN [run EXCEPT
                     !.processed_files[level] =
                         @ \o Processed(level, run.processed_files[level - 1]),
                     !.executed = Append(@, [stage |-> level,
                                             files |-> run.processed_files[level - 1]]),
                     !.pc = next, !.level = IF level = L2 THEN L2 ELSE level + 1]
            ELSE [run EXCEPT !.pc = next,
                             !.level = IF level = L2 THEN L2 ELSE level + 1]
    /\ UNCHANGED <<prodVars, regVars, levelb, decoded, file, loaded>>

InitPipeline ==
    /\ \E start_level \in ProductLevels, end_level \in ProductLevels,
          has_input_files \in BOOLEAN :
         run = [start_level |-> start_level, end_level |-> end_level,
                has_input_files |-> has_input_files, pc |-> "check", level |-> LB,
                processed_files |-> [l \in FileLevels |-> <<>>],
                executed |-> <<>>, err |-> None]
    /\ levelb = <<>>
    /\ decoded = NotDecoded
    /\ file = NoFile
    /\ loaded = NotLoaded
    /\ NoProducts
    /\ NoRegistry

NextPipeline ==
    \/ CheckLevels
    \/ \E raises \in BOOLEAN : StageLB(raises)
    \/ Seed
    \/ Stage

SpecPipeline == InitPipeline /\ [][NextPipeline]_vars

-----------------------------------------------------------------------------
(* Properties of the registry dispatch, checked under SpecDispatch *)

\* C1: with N the number of registered validation functions that return
\* True, a call returns exactly the matching variant when N = 1, returns the
\* default variant when N = 0 and one is set, raises NoMatchError when N = 0
\* and none is set, and raises MultipleMatchError without returning any
\* variant when N > 1.
C1_DispatchByMatchCount ==
    widget # NotCalled =>
        LET N == Cardinality(matches)
        IN /\ N = 1 => widget.err = None /\ matches = {widget.type}
           /\ (N = 0 /\ default_widget_type # None) =>
                  widget = [type |-> default_widget_type, err |-> None]
           /\ (N = 0 /\ default_widget_type = None) =>
                  widget = [type |-> None, err |-> "NoMatchError"]
           /\ N > 1 => widget = [type |-> None, err |-> "MultipleMatchError"]

\* an ambiguous call on a factory that has a default, which is among the matches
C1_Witness ==
    /\ Cardinality(matches) > 1
    /\ default_widget_type \in matches
    /\ widget.err = "MultipleMatchError"

-----------------------------------------------------------------------------
(* Properties of the variants and the level transitions, checked under     *)
(* SpecVariants                                                            *)

\* C2: combining two products whose concrete variants differ fails with a
\* TypeError and produces no product, whichever of the two is the left
\* operand and also when one variant is a subclass of the other.
C2_DifferentVariantsFail ==
    (last.op = "add" /\ products[last.self].cls # products[last.other].cls) =>
        (last.err = "TypeError" /\ last.out = 0)

-----------------------------------------------------------------------------
(* What the properties of combine and split speak of *)

AddDone == last.op = "add" /\ last.err = None
SplitDone == last.op = "split"

Self == products[last.self]
Other == products[last.other]
Out == products[last.out]

UniqueIndex(control) ==
    \A a \in DOMAIN control, b \in DOMAIN control :
        a # b => control[a].index # control[b].index

\* every control_index names a Control row and every Control row is named
RefIntegrity(control, data) == DataIndices(data) = ControlIndices(control)

WellFormed(p) ==
    /\ UniqueIndex(controls[p.control])
    /\ RefIntegrity(controls[p.control], datas[p.data])

\* the index values are exactly 0..K-1
DenseIndex(control) ==
    /\ UniqueIndex(control)
    /\ ControlIndices(control) = 0..(Len(control) - 1)

TimeSorted(data) ==
    \A a \in DOMAIN data, b \in DOMAIN data : a < b => data[a].time <= data[b].time

Dist(t, c) == IF t >= c * TicksPerCent THEN t - c * TicksPerCent ELSE c * TicksPerCent - t

\* the time rounded to 2 decimal places, in cents: the nearest cent, the even
\* one of two equally near
TimeKey(t) ==
    CHOOSE c \in 0..(t + 1) :
        \A e \in 0..(t + 1) :
            e # c => \/ Dist(t, c) < Dist(t, e)
                     \/ (Dist(t, c) = Dist(t, e) /\ c % 2 = 0)

\* a row of the one table and a row of the other have the same rounded time
CrossDuplicate(data1, data2) ==
    \E a \in DOMAIN data1, b \in DOMAIN data2 :
        TimeKey(data1[a].time) = TimeKey(data2[b].time)

-----------------------------------------------------------------------------
(* Properties of combine and split, checked under Spec *)

\* C3: the Control table of the sum of two products with unique Control
\* index values and referential integrity has the index values 0..K-1, each
\* once, and is ordered by index.
C3_DenseAfterAdd ==
    (AddDone /\ WellFormed(Self) /\ WellFormed(Other)) =>
        \A k \in DOMAIN controls[Out.control] : controls[Out.control][k].index = k - 1

\* both inputs number their packets 0, 1; a packet is pruned; the first row
\* in time is one of other
C3_Witness ==
    /\ AddDone
    /\ Len(controls[Self.control]) = 2 /\ Len(controls[Other.control]) = 2
    /\ Len(controls[Out.control]) = 3
    /\ datas[Out.data][1].val # datas[Self.data][1].val

\* C4: every fragment split_to_files yields from a product with dense
\* Control indexing has the Control index values 0..K-1.
C4_DenseAfterSplit ==
    (SplitDone /\ DenseIndex(controls[Self.control])) =>
        \A f \in DOMAIN frags : DenseIndex(frags[f].control)

\* C5: the sum of two products with referential integrity, and every
\* fragment of a product with referential integrity, has referential
\* integrity: each control_index is an index of the Control table and each
\* Control index is the control_index of some Data row.
C5_RefIntegrityKept ==
    /\ (AddDone /\ WellFormed(Self) /\ WellFormed(Other)) =>
           RefIntegrity(controls[Out.control], datas[Out.data])
    /\ (SplitDone /\ WellFormed(Self)) =>
           \A f \in DOMAIN frags : RefIntegrity(frags[f].control, frags[f].data)

\* a sum that lost a Control row is split into fragments that leave Control
\* rows out
C5_Witness ==
    /\ SplitDone
    /\ last.self = 3
    /\ Len(controls[Self.control]) < Len(controls[1]) + Len(controls[2])
    /\ Len(frags) >= 2
    /\ \E f \in DOMAIN frags : Len(frags[f].control) < Len(controls[Self.control])

\* C6: the Data rows of a sum are non-decreasing in time and no two of them
\* have the same time rounded to 2 decimal places.
C6_SortedAndDeduplicated ==
    AddDone =>
        LET data == datas[Out.data]
        IN \A a \in DOMAIN data, b \in DOMAIN data :
               a < b => /\ data[a].time <= data[b].time
                        /\ TimeKey(data[a].time) # TimeKey(data[b].time)

\* self is not sorted, and rows of self and other with different times have
\* the same rounded time
C6_Witness ==
    /\ AddDone
    /\ ~TimeSorted(datas[Self.data])
    /\ \E a \in DOMAIN datas[Self.data], b \in DOMAIN datas[Other.data] :
          /\ datas[Self.data][a].time # datas[Other.data][b].time
          /\ TimeKey(datas[Self.data][a].time) = TimeKey(datas[Other.data][b].time)
    /\ Len(datas[Out.data]) >= 2

\* the Control row of product p that a Data row with this control_index names
NamedRows(control, ci) == {control[m] : m \in {n \in DOMAIN control : control[n].index = ci}}

\* the row of the sum comes from a Data row of product p, and crow is the
\* Control row that row named in p
FromInput(p, row, crow) ==
    \E k \in DOMAIN datas[p.data] :
        /\ datas[p.data][k].time = row.time
        /\ datas[p.data][k].val = row.val
        /\ \E old \in NamedRows(controls[p.control], datas[p.data][k].control_index) :
              old.packet = crow.packet /\ old.raw_file = crow.raw_file

\* the new ids are 0, 1, 2, ... in the order the rows first name them
FirstOccurrenceOrder(data) ==
    \A k \in DOMAIN data :
        \/ \E m \in 1..(k - 1) : data[m].control_index = data[k].control_index
        \/ data[k].control_index = Cardinality({data[m].control_index : m \in 1..(k - 1)})

\* the shape of the scenario: one packet each, self's two samples and other's
\* two samples alternating in time, self's first
Alternating(self_data, other_data) ==
    /\ Len(self_data) = 2 /\ Len(other_data) = 2
    /\ DataIndices(self_data) = {0} /\ DataIndices(other_data) = {0}
    /\ TimeKey(self_data[1].time) < TimeKey(other_data[1].time)
    /\ TimeKey(other_data[1].time) < TimeKey(self_data[2].time)
    /\ TimeKey(self_data[2].time) < TimeKey(other_data[2].time)

\* C7: in the sum of two products with unique Control index values and
\* referential integrity, the Control row whose index is a Data row's new
\* control_index is the Control row that Data row named in the product it
\* comes from; new ids are given 0, 1, 2, ... in the order of first
\* occurrence along the sorted Data; and two one-packet products whose two
\* samples each alternate in time give 2 Control rows with index 0, 1 and
\* the four Data rows in time order with control_index 0, 1, 0, 1.
C7_Provenance ==
    (AddDone /\ WellFormed(Self) /\ WellFormed(Other)) =>
        LET data == datas[Out.data]
            control == controls[Out.control]
        IN /\ \A k \in DOMAIN data :
                 /\ NamedRows(control, data[k].control_index) # {}
                 /\ \A crow \in NamedRows(control, data[k].control_index) :
                       FromInput(Self, data[k], crow) \/ FromInput(Other, data[k], crow)
           /\ FirstOccurrenceOrder(data)
           /\ Alternating(datas[Self.data], datas[Other.data]) =>
                 /\ [k \in DOMAIN control |-> control[k].index] = <<0, 1>>
                 /\ [k \in DOMAIN data |-> data[k].time] =
                        <<datas[Self.data][1].time, datas[Other.data][1].time,
                          datas[Self.data][2].time, datas[Other.data][2].time>>
                 /\ [k \in DOMAIN data |-> data[k].control_index] = <<0, 1, 0, 1>>
                 /\ [k \in DOMAIN data |-> data[k].val] =
                        <<datas[Self.data][1].val, datas[Other.data][1].val,
                          datas[Self.data][2].val, datas[Other.data][2].val>>

\* the scenario has been combined
C7_Witness ==
    /\ AddDone
    /\ Alternating(datas[Self.data], datas[Other.data])
    /\ Len(datas[Out.data]) = 4

\* a Data row without its control_index, with the packet it belongs to
RowOf(control, row) ==
    [time |-> row.time, timedel |-> row.timedel, val |-> row.val, eng |-> row.eng,
     packets |-> {crow.packet : crow \in NamedRows(control, row.control_index)}]

RowsOf(control, data) == [k \in DOMAIN data |-> RowOf(control, data[k])]

RECURSIVE FragmentRows(_)
\* the Data rows of the fragments, one fragment after the other
FragmentRows(fs) ==
    IF fs = <<>> THEN <<>>
    ELSE FragmentRows(SubSeq(fs, 1, Len(fs) - 1))
         \o RowsOf(fs[Len(fs)].control, fs[Len(fs)].data)

\* C8: the Data rows of the fragments of a time-sorted product, one fragment
\* after the other, are the Data rows of the product: each row is in exactly
\* one fragment, at level L0 and above it.
C8_SplitCoverage ==
    (SplitDone /\ TimeSorted(datas[Self.data])) =>
        FragmentRows(frags) = RowsOf(controls[Self.control], datas[Self.data])

\* a sorted L1 product of at least 3 rows is cut at a UTC midnight that is
\* no instrument-clock day boundary
C8_Witness ==
    /\ SplitDone
    /\ Self.level = "L1"
    /\ TimeSorted(datas[Self.data])
    /\ Len(datas[Self.data]) >= 3
    /\ Len(frags) >= 2
    /\ \E f \in DOMAIN frags :
          \E a \in DOMAIN frags[f].data, b \in DOMAIN frags[f].data :
              SceDay(frags[f].data[a].time) # SceDay(frags[f].data[b].time)

\* C10: self + other and other + self hold the same Data rows in the same
\* order, also when rows of the two have the same rounded time and the time
\* ranges of the two start at the same instant.
C10_Commutative ==
    AddDone => datas[Out.data] = AddData(datas[Other.data], datas[Self.data])

\* C10 (amended): self + other and other + self hold the same Data rows in
\* the same order unless the time ranges of the two start at the same
\* instant and a row of the one has the same rounded time as a row of the
\* other.
C10_CommutativeUnlessTiedStart ==
    (AddDone /\ ~(/\ ScetStart(datas[Self.data]) = ScetStart(datas[Other.data])
                  /\ CrossDuplicate(datas[Self.data], datas[Other.data]))) =>
        datas[Out.data] = AddData(datas[Other.data], datas[Self.data])

\* other starts first and one of its rows has the rounded time of a row of
\* self: the sum keeps other's row
C10_Witness ==
    /\ AddDone
    /\ ScetStart(datas[Other.data]) < ScetStart(datas[Self.data])
    /\ \E a \in DOMAIN datas[Self.data], b \in DOMAIN datas[Other.data] :
          /\ TimeKey(datas[Self.data][a].time) = TimeKey(datas[Other.data][b].time)
          /\ \E k \in DOMAIN datas[Out.data] :
                /\ datas[Out.data][k].time = datas[Other.data][b].time
                /\ datas[Out.data][k].val = datas[Other.data][b].val
    /\ Len(datas[Out.data]) >= 3

-----------------------------------------------------------------------------
(* Properties of the level transitions, checked under SpecVariants *)

\* C9: a level transition that returns a product leaves the Control table,
\* the Data table and the idb_versions of its predecessor as they were, and
\* the new product shares none of the three with the predecessor.
C9_PredecessorUntouched ==
    [][(/\ last'.op \in {"from_level0", "from_level1"}
        /\ last'.out = Len(products) + 1
        /\ Len(products') = Len(products) + 1) =>
          LET pred == products[last'.self]
              new == products'[last'.out]
          IN /\ controls'[pred.control] = controls[pred.control]
             /\ datas'[pred.data] = datas[pred.data]
             /\ idbs'[pred.idb_versions] = idbs[pred.idb_versions]
             /\ new.control # pred.control
             /\ new.data # pred.data
             /\ new.idb_versions # pred.idb_versions]_vars

-----------------------------------------------------------------------------
(* Properties of sums of sums, checked under SpecSums *)

\* the (time, value) pairs of a Data table
Content(data) == {<<data[k].time, data[k].val>> : k \in DOMAIN data}

\* no two rows of the three tables have the same rounded time
NoOverlap(d1, d2, d3) ==
    LET all == d1 \o d2 \o d3
    IN \A a \in DOMAIN all, b \in DOMAIN all :
           a # b => TimeKey(all[a].time) # TimeKey(all[b].time)

\* the product at position x is the sum of those at positions a and b
IsSumOf(x, a, b) ==
    /\ x > 3 /\ a <= 3 /\ b <= 3
    /\ datas[products[x].data] = AddData(datas[products[a].data], datas[products[b].data])

\* C11: for three products A, B, C without two samples of the same rounded
\* time, given in any order, (A + B) + C and A + (B + C) hold the same set
\* of (time, value) pairs.
C11_AssociativeContent ==
    AddDone =>
        \A a \in 1..3, b \in 1..3, c \in 1..3 :
            (/\ {a, b, c} = 1..3
             /\ NoOverlap(datas[products[a].data], datas[products[b].data],
                          datas[products[c].data])
             /\ IsSumOf(last.self, a, b)
             /\ last.other = c) =>
                Content(datas[Out.data]) =
                    Content(AddData(datas[products[a].data],
                                    AddData(datas[products[b].data],
                                            datas[products[c].data])))

\* (A + B) + C is built where B starts first and C lies between A and B
C11_Witness ==
    /\ AddDone
    /\ \E a \in 1..3, b \in 1..3 :
          /\ a # b /\ last.other \in 1..3 \ {a, b}
          /\ IsSumOf(last.self, a, b)
          /\ NoOverlap(datas[products[a].data], datas[products[b].data],
                       datas[Other.data])
          /\ datas[products[b].data][1].time < datas[Other.data][1].time
          /\ datas[Other.data][1].time < datas[products[a].data][1].time
    /\ Len(datas[Out.data]) = 3

\* C12: with X a sum of two products, X + X has as many Data rows and as
\* many Control rows as X.
C12_SelfSumSameCounts ==
    (AddDone /\ last.self = last.other /\ last.self > 3) =>
        /\ Len(datas[Out.data]) = Len(datas[Self.data])
        /\ Len(controls[Out.control]) = Len(controls[Self.control])

\* X, the sum of two products of which it kept both rows and both packets,
\* is summed with itself
C12_Witness ==
    /\ AddDone
    /\ last.self = last.other /\ last.self > 3
    /\ Len(datas[Self.data]) = 2
    /\ Len(controls[Self.control]) = 2
    /\ Len(datas[Out.data]) = 2

\* the range covers the other one
Covers(range, other) == range.start <= other.start /\ range.end >= other.end

\* C13: the idb_versions of a sum has the versions of self and those of
\* other and no more, and its range of a version covers self's range and
\* other's range of that version; so along any sequence of sums no range
\* shrinks.
C13_IdbVersionsCover ==
    AddDone =>
        LET idb == idbs[Out.idb_versions]
            self_idb == idbs[Self.idb_versions]
            other_idb == idbs[Other.idb_versions]
        IN /\ DOMAIN idb = DOMAIN self_idb \cup DOMAIN other_idb
           /\ \A v \in DOMAIN self_idb : Covers(idb[v], self_idb[v])
           /\ \A v \in DOMAIN other_idb : Covers(idb[v], other_idb[v])

\* other, itself a sum, has a version self has not, and of a version both
\* have, other's range begins before self's
C13_Witness ==
    /\ AddDone
    /\ last.other > 3
    /\ DOMAIN idbs[Other.idb_versions] \ DOMAIN idbs[Self.idb_versions] # {}
    /\ \E v \in DOMAIN idbs[Self.idb_versions] \cap DOMAIN idbs[Other.idb_versions] :
          idbs[Other.idb_versions][v].start < idbs[Self.idb_versions][v].start

-----------------------------------------------------------------------------
(* Properties of the split of a many-day product, checked under SpecDays *)

\* the day a time lies in: day d is the ticks [d * TicksPerDay, (d + 1) * TicksPerDay)
InDay(t, d) == d * TicksPerDay <= t /\ t < (d + 1) * TicksPerDay

\* the days that have at least one row of the Data table
DaysWithRows(data) == {d \in 0..(MaxDay + 1) : \E k \in DOMAIN data : InDay(data[k].time, d)}

\* C14: split_to_files of an L0 product yields exactly one fragment for each
\* instrument-clock day that has a Data row and none for a day without, in
\* ascending order of the days, and every Data row of a fragment lies in the
\* fragment's day; samples on three days with an empty day between them
\* give exactly 3 fragments.
C14_OneFragmentPerDay ==
    (SplitDone /\ Self.level = "L0") =>
        LET days == DaysWithRows(datas[Self.data])
        IN /\ Len(frags) = Cardinality(days)
           /\ \A d \in days : \E f \in DOMAIN frags : frags[f].day = d
           /\ \A f \in DOMAIN frags :
                 /\ frags[f].day \in days
                 /\ frags[f].data # <<>>
                 /\ \A k \in DOMAIN frags[f].data :
                       InDay(frags[f].data[k].time, frags[f].day)
           /\ \A f \in DOMAIN frags, g \in DOMAIN frags :
                 f < g => frags[f].day < frags[g].day

\* samples on the days 0, 1 and 3, not in time order, give 3 fragments
C14_Witness ==
    /\ SplitDone
    /\ Self.level = "L0"
    /\ DaysWithRows(datas[Self.data]) = {0, 1, 3}
    /\ ~TimeSorted(datas[Self.data])
    /\ [f \in DOMAIN frags |-> frags[f].day] = <<0, 1, 3>>

-----------------------------------------------------------------------------
(* The order of the levels, checked under SpecVariants *)

\* LB < L0 < L1 < L2
LevelRank(level) ==
    CASE level = "LB" -> 0
      [] level = "L0" -> 1
      [] level = "L1" -> 2
      [] level = "L2" -> 3

\* C15: a product made by from_level0 or from_level1 has a higher level than
\* the product it was made from: from_level0 makes an L1 product of an L0
\* product only, from_level1 an L2 product of an L1 product only.
C15_LevelsOnlyRise ==
    (last.op \in {"from_level0", "from_level1"} /\ last.out # 0) =>
        /\ LevelRank(Out.level) > LevelRank(Self.level)
        /\ last.op = "from_level0" => (Self.level = "L0" /\ Out.level = "L1")
        /\ last.op = "from_level1" => (Self.level = "L1" /\ Out.level = "L2")

-----------------------------------------------------------------------------
(* Which of two rows of one rounded time a sum keeps, checked under        *)
(* SpecTimedel                                                             *)

\* twice the instant the first sample of the table begins at
TwiceStart(data) == 2 * data[1].time - data[1].timedel

\* the rounded times a row of d1 and a row of d2 both have
SharedKeys(d1, d2) ==
    {TimeKey(d1[a].time) : a \in DOMAIN d1} \cap {TimeKey(d2[b].time) : b \in DOMAIN d2}

\* the first row of the table that has this rounded time
FirstWithKey(data, key) ==
    data[SetMin({k \in DOMAIN data : TimeKey(data[k].time) = key})]

\* the row of the sum with this rounded time is the first such row of p
SurvivorFrom(p, key) ==
    \E k \in DOMAIN datas[Out.data] :
        LET row == datas[Out.data][k]
            kept == FirstWithKey(datas[p.data], key)
        IN /\ TimeKey(row.time) = key
           /\ row.time = kept.time /\ row.val = kept.val /\ row.timedel = kept.timedel

\* C16: of a row of self and a row of other with the same rounded time the
\* sum keeps the row of the product whose first sample time is earlier,
\* whatever the sample durations of the two products are.
C16_SurvivorByFirstSample ==
    AddDone =>
        \A key \in SharedKeys(datas[Self.data], datas[Other.data]) :
            /\ datas[Self.data][1].time < datas[Other.data][1].time =>
                   SurvivorFrom(Self, key)
            /\ datas[Other.data][1].time < datas[Self.data][1].time =>
                   SurvivorFrom(Other, key)

\* C16 (amended): of a row of self and a row of other with the same rounded
\* time the sum keeps the row of the product whose time range starts
\* earlier, the start being the first sample time less half the first
\* sample's duration, and the row of self when both start together.
C16_SurvivorByRangeStart ==
    AddDone =>
        \A key \in SharedKeys(datas[Self.data], datas[Other.data]) :
            IF TwiceStart(datas[Self.data]) <= TwiceStart(datas[Other.data])
            THEN SurvivorFrom(Self, key)
            ELSE SurvivorFrom(Other, key)

\* the first sample of other is the earlier one, the longer first sample of
\* self begins no later than it, and the sum keeps the row of self
C16_Witness ==
    /\ AddDone
    /\ datas[Other.data][1].time < datas[Self.data][1].time
    /\ TwiceStart(datas[Self.data]) <= TwiceStart(datas[Other.data])
    /\ \E key \in SharedKeys(datas[Self.data], datas[Other.data]) :
          /\ SurvivorFrom(Self, key)
          /\ ~SurvivorFrom(Other, key)

-----------------------------------------------------------------------------
(* What combine and split leave alone, checked under Spec *)

\* C17: a combine leaves the Control table, the Data table and the
\* idb_versions of self and of other as they were, a split leaves those of
\* the product it splits as they were, and splitting the product again
\* after the split yields the same fragments.
C17_InputsUntouched ==
    [][/\ last'.op \in {"add", "split"} =>
            \A p \in {last'.self, last'.other} \cap DOMAIN products :
                /\ products'[p] = products[p]
                /\ controls'[products[p].control] = controls[products[p].control]
                /\ datas'[products[p].data] = datas[products[p].data]
                /\ idbs'[products[p].idb_versions] = idbs[products[p].idb_versions]
       /\ last.op = "split" => SplitToFiles(products[last.self]) = frags
      ]_vars

\* the sum of two products has been split into fragments, one of them with
\* its control_index values renumbered
C17_Witness ==
    /\ SplitDone
    /\ last.self = 3
    /\ Len(frags) >= 2
    /\ \E f \in DOMAIN frags :
          ControlIndices(frags[f].control) # ControlIndices(controls[Self.control])
    /\ \E f \in DOMAIN frags : \E k \in DOMAIN frags[f].control :
          \A m \in DOMAIN controls[Self.control] :
              controls[Self.control][m].packet = frags[f].control[k].packet
              /\ controls[Self.control][m].raw_file = frags[f].control[k].raw_file
                  => controls[Self.control][m].index # frags[f].control[k].index

-----------------------------------------------------------------------------
(* The default idb_versions, checked under SpecDefaults *)

\* C18: adding a version to, or expanding a range of, the idb_versions of a
\* product changes the idb_versions of no other product, also when the
\* products were built without an idb_versions argument.
C18_IndependentIdbVersions ==
    [][last'.op = "expand" =>
          \A j \in DOMAIN products \ {last'.self} :
              idbs'[products[j].idb_versions] = idbs[products[j].idb_versions]]_vars

-----------------------------------------------------------------------------
(* The decode loop, checked under SpecDecode *)

\* C19: when a step raises on a packet of the batch, the call raises and
\* returns no packets and no idb_versions, and the packets behind the one
\* that raised in the loop have not gone through the loop; when no step
\* raises, every packet of the batch is returned and the idb_versions
\* range of its IDB version covers its time.
C19_NoExceptionIsolation ==
    decoded.called =>
        IF \E k \in DOMAIN levelb : levelb[k].fault # None
        THEN /\ ~decoded.returned
             /\ decoded.err # None
             /\ decoded.packets = <<>>
             /\ DOMAIN decoded.idb_versions = {}
             /\ decoded.handled < Len(levelb)
             /\ decoded.err = "Packet" => decoded.handled = 0
             /\ decoded.err # "Packet" =>
                    /\ levelb[decoded.handled + 1].fault = decoded.err
                    /\ \A k \in 1..decoded.handled : levelb[k].fault = None
        ELSE /\ decoded.returned
             /\ decoded.err = None
             /\ Len(decoded.packets) = Len(levelb)
             /\ \A k \in DOMAIN levelb :
                   /\ decoded.packets[k].time = levelb[k].time
                   /\ decoded.packets[k].version \in DOMAIN decoded.idb_versions
                   /\ decoded.idb_versions[decoded.packets[k].version].start
                          <= levelb[k].time
                   /\ decoded.idb_versions[decoded.packets[k].version].end
                          >= levelb[k].time

\* the second of three packets cannot be decompressed: the first has gone
\* through the loop, the third, a sound one, has not, and nothing is returned
C19_Witness ==
    /\ decoded.called
    /\ Len(levelb) = 3
    /\ levelb[1].fault = None
    /\ levelb[2].fault = "decompress"
    /\ levelb[3].fault = None
    /\ decoded.handled = 1
    /\ ~decoded.returned

-----------------------------------------------------------------------------
(* Files without the optional tables, checked under SpecLoad *)

-----------------------------------------------------------------------------
(* The stages of a run, checked under SpecPipeline *)

RunOver == run.pc \in {"done", "raised"}

Executed(level) == \E k \in DOMAIN run.executed : run.executed[k].stage = level

\* the stages have run in ascending order of their levels, none twice
InLevelOrder ==
    \A a \in DOMAIN run.executed, b \in DOMAIN run.executed :
        a < b => run.executed[a].stage < run.executed[b].stage

\* the files recorded for the level below a stage: what the stage of that
\* level returned, or the input files (those listed, else those of the
\* archive) when the run starts at the stage
RecordedBelow(level) ==
    IF run.start_level = level
    THEN IF run.has_input_files
         THEN <<[origin |-> "input_files", through |-> <<>>]>>
         ELSE <<[origin |-> "fitsdir", through |-> <<level - 1>>]>>
    ELSE LET k == CHOOSE k \in DOMAIN run.executed : run.executed[k].stage = level - 1
         IN [m \in DOMAIN run.executed[k].files |->
                [origin |-> run.executed[k].files[m].origin,
                 through |-> Append(run.executed[k].files[m].through, level - 1)]]

\* C21: a run whose end_level is below its start_level raises before any
\* stage executes; in any other run the stages execute at most once each
\* and in the order LB, L0, L1, L2; each of the stages L0, L1, L2 executes
\* if and only if start_level <= its level <= end_level, and consumes
\* exactly the files recorded for the level below; and the LB stage
\* executes whenever start_level <= LB.
C21_StageGating ==
    /\ (run.pc # "check" /\ run.end_level < run.start_level) =>
           (run.pc = "raised" /\ run.err = "ValueError" /\ run.executed = <<>>)
    /\ InLevelOrder
    /\ \A k \in DOMAIN run.executed :
           run.executed[k].stage \in {L0, L1, L2} =>
               run.executed[k].files = RecordedBelow(run.executed[k].stage)
    /\ (RunOver /\ run.end_level >= run.start_level) =>
           /\ \A level \in {L0, L1, L2} :
                  Executed(level) <=>
                      (run.start_level <= level /\ level <= run.end_level)
           /\ run.start_level <= LB => Executed(LB)

====
